---- MODULE Spec2Model ----
(***************************************************************************)
(* Drawing Renamer Tool (Main_Programme.py).                               *)
(*                                                                         *)
(* The program is a Streamlit script: every user interaction re-runs       *)
(* main() from the top against the session state.  One action of this      *)
(* module is one such run: the upload block (lines 85-100) followed by the *)
(* handler of the button that was clicked, if any.                         *)
(*                                                                         *)
(* File names and user-typed names are sequences of one-character strings, *)
(* so that os.path.splitext and string concatenation are computed.  A      *)
(* missing spreadsheet cell (pandas NaN) is the value NaN.                 *)
(***************************************************************************)
EXTENDS Integers, Sequences, FiniteSets, TLC

VARIABLES
    drawings_df,          \* st.session_state['drawings_df']: rows in order
    temp_dir_path,        \* st.session_state['temp_dir_path']: "" when not set
    temp_uploaded_files,  \* the directory "temp_uploaded_files" on disk
    temp_renamed_files,   \* the directory "temp_renamed_files" on disk
    uploaded_files,       \* the files held by the 'Upload Drawings' widget
    rename_option,        \* the radio button
    ui,                   \* what the last run reported to the page
    excel_file,           \* the sheet offered for download by the last run
    zip_file,             \* the archive offered for download by the last run
    at_handler,           \* history: table and staging as the last run's
                          \* button handler found them (after lines 85-100)
    uploaded_excel,       \* history: the sheet the last run's import read
    scenario              \* history: how far the session has followed
                          \* upload, export, import, process from its start

vars == <<drawings_df, temp_dir_path, temp_uploaded_files, temp_renamed_files,
          uploaded_files, rename_option, ui, excel_file, zip_file, at_handler,
          uploaded_excel, scenario>>

----------------------------------------------------------------------------
(* Bounds and input domains *)

MaxBatch == 2       \* files held by the upload widget
MaxRows == 2        \* rows of an imported spreadsheet

a_pdf == <<"a", ".", "p", "d", "f">>
dot_png == <<".", "p", "n", "g">>       \* a name that is all extension

\* names that pass the widget's type filter (line 82)
FileNames == {a_pdf, dot_png}

\* replacement names a user types into the sheet
x_name == <<"x">>
x_pdf == <<"x", ".", "p", "d", "f">>
TypedNames == {x_name, x_pdf}

NaN == <<"NaN">>            \* pandas missing value
EmptyStr == <<>>            \* ''

----------------------------------------------------------------------------
(* Values *)

\* the files the user has at hand: UploadedFile.name, UploadedFile.getbuffer()
\* (contents are opaque, one distinct value per file)
UploadedFile == {[name |-> a_pdf, data |-> 1], [name |-> dot_png, data |-> 2]}

RECURSIVE SeqsUpTo(_, _)
SeqsUpTo(S, n) ==
    IF n = 0 THEN {<<>>}
    ELSE LET shorter == SeqsUpTo(S, n - 1)
         IN  shorter \cup {Append(s, e) : s \in {t \in shorter : Len(t) = n - 1}, e \in S}

Batches == SeqsUpTo(UploadedFile, MaxBatch)

\* a directory on disk: whether it exists, and its files (name -> contents)
NoFiles == [n \in {} |-> 0]
AbsentDir == [exists |-> FALSE, files |-> NoFiles]

\* writing one file into a directory (open(path, "wb") / shutil.copy)
WriteFile(files, name, data) ==
    [n \in (DOMAIN files) \cup {name} |-> IF n = name THEN data ELSE files[n]]

\* a row of the DataFrame
Row(original, new) == [Original_Name |-> original, New_Name |-> new]

\* a parsed spreadsheet: kind "corrupt" cannot be read by pd.read_excel;
\* otherwise columns are its header cells and rows its data rows
SheetRow(original, renamed) == [Original_Title |-> original, Renamed_Title |-> renamed]
SheetRows == [Original_Title : FileNames, Renamed_Title : TypedNames \cup {NaN}]
BothColumns == {"Original Title", "Renamed Title"}
Sheets ==
    {[kind |-> "corrupt", columns |-> {}, rows |-> <<>>]}
    \cup {[kind |-> "sheet", columns |-> c, rows |-> <<>>] : c \in (SUBSET BothColumns) \ {BothColumns}}
    \cup {[kind |-> "sheet", columns |-> BothColumns, rows |-> r] : r \in SeqsUpTo(SheetRows, MaxRows)}

NoUpload == [kind |-> "none", columns |-> {}, rows |-> <<>>]

\* the sheets the user of a session has at hand
Sheet(rows) == [kind |-> "sheet", columns |-> BothColumns, rows |-> rows]
SessionSheets ==
    {[kind |-> "corrupt", columns |-> {}, rows |-> <<>>],
     [kind |-> "sheet", columns |-> {"Original Title"}, rows |-> <<>>],
     Sheet(<<SheetRow(a_pdf, x_name), SheetRow(dot_png, NaN)>>),
     Sheet(<<SheetRow(a_pdf, NaN), SheetRow(dot_png, NaN)>>),
     Sheet(<<SheetRow(a_pdf, x_name), SheetRow(dot_png, x_pdf)>>),
     Sheet(<<SheetRow(dot_png, x_name), SheetRow(a_pdf, NaN)>>),
     Sheet(<<SheetRow(a_pdf, x_pdf)>>)}

\* the tables an import can meet: rows of one name carry one New Name
Tables ==
    {t \in SeqsUpTo([Original_Name : FileNames,
                     New_Name : TypedNames \cup {NaN, EmptyStr}], MaxBatch) :
        \A i, j \in 1..Len(t) :
            t[i].Original_Name = t[j].Original_Name => t[i].New_Name = t[j].New_Name}

NoArchive == [made |-> FALSE, entries |-> NoFiles]
NoExcel == [made |-> FALSE, rows |-> <<>>]

----------------------------------------------------------------------------
(* Library functions the code calls *)

\* str.rfind(ch): the last index of ch, 0 when absent (1-based)
rfind(p, ch) ==
    LET hits == {i \in 1..Len(p) : p[i] = ch}
    IN  IF hits = {} THEN 0 ELSE CHOOSE i \in hits : \A j \in hits : j <= i

\* os.path.splitext(p)[1]: the extension starts at the last dot, provided some
\* character between the last separator and that dot is not a dot
splitext_ext(p) ==
    LET sepIndex == rfind(p, "/")
        dotIndex == rfind(p, ".")
    IN  IF dotIndex > sepIndex
           /\ \E k \in (sepIndex + 1)..(dotIndex - 1) : p[k] # "."
        THEN SubSeq(p, dotIndex, Len(p))
        ELSE <<>>

\* pd.notna(v)
notna(v) == v # NaN

\* Series.isnull().all(): vacuously true of an empty column
isnull_all(df) == \A i \in 1..Len(df) : df[i].New_Name = NaN

\* Index.is_unique of set_index('Original Name')
index_is_unique(df) ==
    \A i, j \in 1..Len(df) : df[i].Original_Name = df[j].Original_Name => i = j

\* Series.map(existing_names).fillna('') for one name, existing index unique
map_fillna(df, name) ==
    IF \E i \in 1..Len(df) : df[i].Original_Name = name
    THEN LET i == CHOOSE k \in 1..Len(df) : df[k].Original_Name = name
         IN  IF df[i].New_Name = NaN THEN EmptyStr ELSE df[i].New_Name
    ELSE EmptyStr

----------------------------------------------------------------------------
(* save_uploaded_files, lines 36-45 *)

RECURSIVE write_uploaded(_, _, _)
write_uploaded(files, uploaded, i) ==
    IF i > Len(uploaded) THEN files
    ELSE write_uploaded(WriteFile(files, uploaded[i].name, uploaded[i].data), uploaded, i + 1)

\* faulty variant: the directory is emptied before the files are written
save_uploaded_files_emptied(dir, uploaded) ==
    [exists |-> TRUE, files |-> write_uploaded(NoFiles, uploaded, 1)]

\* os.makedirs(exist_ok=True), then one write per uploaded file, in order
save_uploaded_files(dir, uploaded) ==
    [exists |-> TRUE, files |-> write_uploaded(dir.files, uploaded, 1)]

----------------------------------------------------------------------------
(* The upload block of main, lines 85-100 *)

\* line 90 / line 98
file_names(uploaded) == [i \in 1..Len(uploaded) |-> uploaded[i].name]

\* lines 89-93: the rebuilt table keeps the New Name of the names it had
preserve_table(df, uploaded) ==
    [i \in 1..Len(uploaded) |-> Row(file_names(uploaded)[i], map_fillna(df, file_names(uploaded)[i]))]

\* lines 99-100: a fresh table, every New Name ''
fresh_table(uploaded) ==
    [i \in 1..Len(uploaded) |-> Row(file_names(uploaded)[i], EmptyStr)]

\* line 87: which branch is taken
has_new_name_data(df) == ~ isnull_all(df)

\* the whole block; raised is the InvalidIndexError of Series.map (line 92)
\* when the existing table's Original Name index is not unique
upload_block(df, path, dir, uploaded) ==
    IF uploaded = <<>>
    THEN [raised |-> FALSE, df |-> df, path |-> path, dir |-> dir]
    ELSE IF has_new_name_data(df)
    THEN IF index_is_unique(df)
         THEN [raised |-> FALSE, df |-> preserve_table(df, uploaded), path |-> path, dir |-> dir]
         ELSE [raised |-> TRUE, df |-> df, path |-> path, dir |-> dir]
    ELSE [raised |-> FALSE, df |-> fresh_table(uploaded),
          path |-> "temp_uploaded_files", dir |-> save_uploaded_files(dir, uploaded)]

----------------------------------------------------------------------------
(* create_excel_download_link, lines 9-33 *)

\* faulty variant: the sheet carries the current New Name values
create_excel_download_link_leaks(df) ==
    IF df = <<>>
    THEN NoExcel
    ELSE [made |-> TRUE,
          rows |-> [i \in 1..Len(df) |-> SheetRow(df[i].Original_Name, df[i].New_Name)]]

create_excel_download_link(df) ==
    IF df = <<>>
    THEN NoExcel
    ELSE [made |-> TRUE,
          rows |-> [i \in 1..Len(df) |-> SheetRow(df[i].Original_Name, EmptyStr)]]

----------------------------------------------------------------------------
(* Import handler, lines 143-156 *)

\* dict(zip(Original Title, Renamed Title)): the last row of a title wins
name_map_has(rows, original) == \E i \in 1..Len(rows) : rows[i].Original_Title = original
\* faulty variant: the first row of a title wins
name_map_get_first(rows, original) ==
    LET hits == {i \in 1..Len(rows) : rows[i].Original_Title = original}
    IN  rows[CHOOSE i \in hits : \A j \in hits : i <= j].Renamed_Title

name_map_get(rows, original) ==
    LET hits == {i \in 1..Len(rows) : rows[i].Original_Title = original}
    IN  rows[CHOOSE i \in hits : \A j \in hits : j <= i].Renamed_Title

\* lines 147-156: every row whose Original Name is a key gets the mapped value
import_names(df, rows) ==
    [i \in 1..Len(df) |->
        IF name_map_has(rows, df[i].Original_Name)
        THEN Row(df[i].Original_Name, name_map_get(rows, df[i].Original_Name))
        ELSE df[i]]

----------------------------------------------------------------------------
(* process_and_zip_files, lines 46-74 *)

\* line 52
new_name_base(row) ==
    IF notna(row.New_Name) /\ row.New_Name # EmptyStr THEN row.New_Name ELSE row.Original_Name

\* faulty variant: the extension is taken from the name the user typed
output_name_typed_extension(row) == new_name_base(row) \o splitext_ext(new_name_base(row))

\* lines 53-54
output_name(row) == new_name_base(row) \o splitext_ext(row.Original_Name)

\* faulty variant: a copy does not replace a file that is already there
RECURSIVE copy_rows_keeps_first(_, _, _, _)
copy_rows_keeps_first(df, n, staged, out) ==
    IF n = 0 THEN out
    ELSE LET before == copy_rows_keeps_first(df, n - 1, staged, out)
         IN  IF /\ df[n].Original_Name \in DOMAIN staged
                /\ output_name(df[n]) \notin DOMAIN before
             THEN WriteFile(before, output_name(df[n]), staged[df[n].Original_Name])
             ELSE before

\* lines 50-61 for the first n rows: one copy per row whose original exists
\* in temp_dir, in row order, a later copy replacing an earlier one
RECURSIVE copy_rows(_, _, _, _)
copy_rows(df, n, staged, out) ==
    IF n = 0 THEN out
    ELSE LET before == copy_rows(df, n - 1, staged, out)
         IN  IF df[n].Original_Name \in DOMAIN staged
             THEN WriteFile(before, output_name(df[n]), staged[df[n].Original_Name])
             ELSE before

\* lines 64-68: every file found in renamed_dir goes into the archive
zip_entries(df, staged, renamed) == copy_rows(df, Len(df), staged, renamed.files)

\* faulty variant: line 71 is missing, the uploaded files stay on disk
process_and_zip_files_keeps_uploads(df, dir, renamed) ==
    [zip |-> [made |-> TRUE, entries |-> zip_entries(df, dir.files, renamed)],
     temp_dir |-> dir,
     renamed_dir |-> AbsentDir]

\* the whole function: the archive it returns and the directories it leaves
process_and_zip_files(df, dir, renamed) ==
    [zip |-> [made |-> TRUE, entries |-> zip_entries(df, dir.files, renamed)],
     temp_dir |-> AbsentDir,
     renamed_dir |-> AbsentDir]

\* the function leaving by an OSError: at the copy of row k (line 60), or for
\* k = Len(df) + 1 while packaging (lines 66-68); nothing is cleaned up
process_and_zip_files_raises(df, dir, renamed, k) ==
    [temp_dir |-> dir,
     renamed_dir |-> [exists |-> TRUE, files |-> copy_rows(df, k - 1, dir.files, renamed.files)]]

----------------------------------------------------------------------------
(* Button handlers of main *)

TitleBlock == "Rename from title block"
ExcelSheet == "Rename from Excel sheet"

\* lines 117-130
export_to_excel(df) ==
    IF df # <<>>
    THEN [ui |-> "export_download", excel |-> create_excel_download_link(df)]
    ELSE [ui |-> "export_nothing", excel |-> NoExcel]

\* faulty variant: a sheet without the two columns blanks the names it cannot map
import_excel_file_blanks(df, sheet) ==
    IF sheet.kind = "none"
    THEN [ui |-> "import_no_file", df |-> df]
    ELSE IF sheet.kind = "corrupt"
    THEN [ui |-> "import_read_error", df |-> df]
    ELSE IF BothColumns \subseteq sheet.columns
    THEN [ui |-> "import_success", df |-> import_names(df, sheet.rows)]
    ELSE [ui |-> "import_columns_error",
          df |-> [i \in 1..Len(df) |-> Row(df[i].Original_Name, NaN)]]

\* lines 135-163
import_excel_file(df, sheet) ==
    IF sheet.kind = "none"
    THEN [ui |-> "import_no_file", df |-> df]
    ELSE IF sheet.kind = "corrupt"
    THEN [ui |-> "import_read_error", df |-> df]
    ELSE IF BothColumns \subseteq sheet.columns
    THEN [ui |-> "import_success", df |-> import_names(df, sheet.rows)]
    ELSE [ui |-> "import_columns_error", df |-> df]

\* line 170
staging_present(path, dir) == path # "" /\ dir.exists

\* faulty variant: line 170 is missing, the function is called in any case
process_rename_unguarded(df, path, dir, renamed) ==
    LET done == process_and_zip_files(df, dir, renamed)
    IN  [ui |-> "process_download", zip |-> done.zip,
         temp_dir |-> done.temp_dir, renamed_dir |-> done.renamed_dir]

\* lines 169-176
process_rename(df, path, dir, renamed) ==
    IF staging_present(path, dir)
    THEN LET done == process_and_zip_files(df, dir, renamed)
         IN  [ui |-> "process_download", zip |-> done.zip,
              temp_dir |-> done.temp_dir, renamed_dir |-> done.renamed_dir]
    ELSE [ui |-> "process_error", zip |-> NoArchive, temp_dir |-> dir, renamed_dir |-> renamed]

----------------------------------------------------------------------------
(* Runs of the script *)

Init ==
    /\ drawings_df = <<>>
    /\ temp_dir_path = ""
    /\ temp_uploaded_files = AbsentDir
    /\ temp_renamed_files = AbsentDir
    /\ uploaded_files = <<>>
    /\ rename_option = TitleBlock
    /\ ui = "idle"
    /\ excel_file = NoExcel
    /\ zip_file = NoArchive
    /\ at_handler = [df |-> <<>>, staged |-> AbsentDir]
    /\ uploaded_excel = NoUpload
    /\ scenario = "start"

\* the stages of scenario at which a materialization has just been asked for
ScenarioEnds == {"processed", "processed_again"}

\* the run stops at line 92: nothing below it is rendered or executed
Raised ==
    /\ ui' = "upload_exception"
    /\ excel_file' = NoExcel
    /\ zip_file' = NoArchive
    /\ at_handler' = [df |-> drawings_df, staged |-> temp_uploaded_files]
    /\ uploaded_excel' = NoUpload
    /\ scenario' = "off"
    /\ UNCHANGED <<drawings_df, temp_dir_path, temp_uploaded_files, temp_renamed_files>>

\* the widgets below line 100 are on the page only if the last run got there
Rendered == ui # "upload_exception"

\* a run in which no button is pressed
PlainRun(uploaded) ==
    LET u == upload_block(drawings_df, temp_dir_path, temp_uploaded_files, uploaded)
    IN  IF u.raised THEN Raised
        ELSE /\ drawings_df' = u.df
             /\ temp_dir_path' = u.path
             /\ temp_uploaded_files' = u.dir
             /\ at_handler' = [df |-> u.df, staged |-> u.dir]
             /\ ui' = "idle"
             /\ excel_file' = NoExcel
             /\ zip_file' = NoArchive
             /\ uploaded_excel' = NoUpload
             /\ UNCHANGED temp_renamed_files

\* the user adds or removes files in the 'Upload Drawings' widget (line 82)
UploadDrawings(batch) ==
    /\ batch # uploaded_files
    /\ uploaded_files' = batch
    /\ rename_option' = rename_option
    /\ PlainRun(batch)
    /\ scenario' = IF scenario = "start" /\ ui' = "idle" THEN "uploaded" ELSE "off"

\* the user picks a rename option (lines 103-107)
SelectRenameOption(option) ==
    /\ Rendered
    /\ option # rename_option
    /\ rename_option' = option
    /\ uploaded_files' = uploaded_files
    /\ PlainRun(uploaded_files)
    /\ scenario' = IF ui' = "idle" /\ scenario \notin ScenarioEnds THEN scenario ELSE "off"

\* 'Search for names in title block' (lines 109-113)
SearchTitleBlock ==
    /\ Rendered
    /\ rename_option = TitleBlock
    /\ UNCHANGED <<uploaded_files, rename_option>>
    /\ PlainRun(uploaded_files)
    /\ scenario' = IF ui' = "idle" /\ scenario \notin ScenarioEnds THEN scenario ELSE "off"

\* 'Export to Excel' (lines 117-130)
ExportToExcel ==
    /\ Rendered
    /\ rename_option = ExcelSheet
    /\ UNCHANGED <<uploaded_files, rename_option>>
    /\ LET u == upload_block(drawings_df, temp_dir_path, temp_uploaded_files, uploaded_files)
           e == export_to_excel(u.df)
       IN  IF u.raised THEN Raised
           ELSE /\ drawings_df' = u.df
                /\ temp_dir_path' = u.path
                /\ temp_uploaded_files' = u.dir
                /\ at_handler' = [df |-> u.df, staged |-> u.dir]
                /\ ui' = e.ui
                /\ excel_file' = e.excel
                /\ zip_file' = NoArchive
                /\ uploaded_excel' = NoUpload
                /\ scenario' = IF scenario = "uploaded" /\ e.ui = "export_download"
                               THEN "exported" ELSE "off"
                /\ UNCHANGED temp_renamed_files

\* whether a sheet is the exported one sent back with some names filled in
\* and the others left blank: the same titles in order
SentBack(df, sheet) ==
    /\ Len(sheet.rows) = Len(df)
    /\ \A i \in 1..Len(df) : sheet.rows[i].Original_Title = df[i].Original_Name
    /\ \E i \in 1..Len(df) : sheet.rows[i].Renamed_Title # NaN
    /\ \E i \in 1..Len(df) : sheet.rows[i].Renamed_Title = NaN

\* whether an import gave some entry another name than it had
Renamed(before, after) ==
    \E i \in 1..Len(before) :
        /\ after[i].New_Name # before[i].New_Name
        /\ after[i].New_Name \notin {NaN, EmptyStr} \/ before[i].New_Name \notin {NaN, EmptyStr}

\* 'Import Excel File' with the sheet held by the 'excel_uploader' widget
\* (lines 133-163)
ImportExcelFile(sheet) ==
    /\ Rendered
    /\ rename_option = ExcelSheet
    /\ UNCHANGED <<uploaded_files, rename_option>>
    /\ LET u == upload_block(drawings_df, temp_dir_path, temp_uploaded_files, uploaded_files)
           m == import_excel_file(u.df, sheet)
       IN  IF u.raised THEN Raised
           ELSE /\ drawings_df' = m.df
                /\ temp_dir_path' = u.path
                /\ temp_uploaded_files' = u.dir
                /\ at_handler' = [df |-> u.df, staged |-> u.dir]
                /\ ui' = m.ui
                /\ excel_file' = NoExcel
                /\ zip_file' = NoArchive
                /\ uploaded_excel' = sheet
                /\ scenario' = IF /\ scenario = "exported"
                                  /\ m.ui = "import_success"
                                  /\ SentBack(u.df, sheet)
                               THEN "imported"
                               ELSE IF /\ scenario = "processed"
                                       /\ m.ui = "import_success"
                                       /\ Renamed(u.df, m.df)
                               THEN "renamed" ELSE "off"
                /\ UNCHANGED temp_renamed_files

\* 'Process Rename' (lines 169-176)
ProcessRename ==
    /\ Rendered
    /\ UNCHANGED <<uploaded_files, rename_option>>
    /\ LET u == upload_block(drawings_df, temp_dir_path, temp_uploaded_files, uploaded_files)
           z == process_rename(u.df, u.path, u.dir, temp_renamed_files)
       IN  IF u.raised THEN Raised
           ELSE /\ drawings_df' = u.df
                /\ temp_dir_path' = u.path
                /\ temp_uploaded_files' = z.temp_dir
                /\ temp_renamed_files' = z.renamed_dir
                /\ at_handler' = [df |-> u.df, staged |-> u.dir]
                /\ ui' = z.ui
                /\ excel_file' = NoExcel
                /\ zip_file' = z.zip
                /\ uploaded_excel' = NoUpload
                /\ scenario' = IF scenario = "imported" /\ z.ui = "process_download"
                               THEN "processed"
                               ELSE IF scenario = "renamed"
                               THEN "processed_again" ELSE "off"

\* 'Process Rename' when a copy or the packaging raises an OSError: the run
\* ends inside process_and_zip_files, after the page has been rendered
ProcessRenameRaises(k) ==
    /\ Rendered
    /\ UNCHANGED <<uploaded_files, rename_option>>
    /\ LET u == upload_block(drawings_df, temp_dir_path, temp_uploaded_files, uploaded_files)
           z == process_and_zip_files_raises(u.df, u.dir, temp_renamed_files, k)
       IN  /\ ~ u.raised
           /\ staging_present(u.path, u.dir)
           /\ k \in 1..(Len(u.df) + 1)
           /\ k <= Len(u.df) => u.df[k].Original_Name \in DOMAIN u.dir.files
           /\ drawings_df' = u.df
           /\ temp_dir_path' = u.path
           /\ temp_uploaded_files' = z.temp_dir
           /\ temp_renamed_files' = z.renamed_dir
           /\ at_handler' = [df |-> u.df, staged |-> u.dir]
           /\ ui' = "process_exception"
           /\ excel_file' = NoExcel
           /\ zip_file' = NoArchive
           /\ uploaded_excel' = NoUpload
           /\ scenario' = "off"

Next ==
    \/ \E batch \in Batches : UploadDrawings(batch)
    \/ \E option \in {TitleBlock, ExcelSheet} : SelectRenameOption(option)
    \/ SearchTitleBlock
    \/ ExportToExcel
    \/ \E sheet \in SessionSheets \cup {NoUpload} : ImportExcelFile(sheet)
    \/ ProcessRename
    \/ \E k \in 1..(MaxBatch + 1) : ProcessRenameRaises(k)

Spec == Init /\ [][Next]_vars

----------------------------------------------------------------------------
(* The import handler on every table and every sheet within the bounds *)

InitImport ==
    /\ drawings_df \in Tables
    /\ temp_dir_path = ""
    /\ temp_uploaded_files = AbsentDir
    /\ temp_renamed_files = AbsentDir
    /\ uploaded_files = <<>>
    /\ rename_option = ExcelSheet
    /\ ui = "idle"
    /\ excel_file = NoExcel
    /\ zip_file = NoArchive
    /\ at_handler = [df |-> drawings_df, staged |-> AbsentDir]
    /\ uploaded_excel = NoUpload
    /\ scenario = "off"

ImportOnce == ui = "idle" /\ \E sheet \in Sheets \cup {NoUpload} : ImportExcelFile(sheet)

ImportSpec == InitImport /\ [][ImportOnce]_vars

----------------------------------------------------------------------------
(* Properties *)

\* no rename requested: '' or a missing value
Blank(v) == v = EmptyStr \/ v = NaN

\* the last run produced an archive
Processed == ui = "process_download"

\* the table and the staged files that run's process_and_zip_files was given
GivenRows == 1..Len(at_handler.df)
GivenStaged(i) == at_handler.df[i].Original_Name \in DOMAIN at_handler.staged.files
ArchiveNames == DOMAIN zip_file.entries

\* the part of a name from its last '.' on, empty if it has none
LastDotExt(p) ==
    IF \E d \in 1..Len(p) : p[d] = "."
    THEN LET d == CHOOSE e \in 1..Len(p) : p[e] = "." /\ \A j \in (e + 1)..Len(p) : p[j] # "."
         IN  SubSeq(p, d, Len(p))
    ELSE <<>>

\* the same, except that a name whose last '.' follows nothing but dots (a
\* name such as ".png") has an empty extension
DotFileExt(p) ==
    IF \E d \in 1..Len(p) : p[d] = "." /\ \E j \in 1..(d - 1) : p[j] # "."
    THEN LastDotExt(p)
    ELSE <<>>

\* C1: after a materialization, every entry of the table with a blank
\* new_name whose original file was staged has an archive entry named exactly
\* its original_name.
C1_BlankKeepsOriginalName ==
    Processed =>
        \A i \in GivenRows :
            (Blank(at_handler.df[i].New_Name) /\ GivenStaged(i))
                => at_handler.df[i].Original_Name \in ArchiveNames

\* C2 as stated: after a materialization, every entry with a non-blank
\* new_name whose original file was staged has an archive entry named new_name
\* followed by the part of original_name from its last '.' on.
C2_LastDotExtension ==
    Processed =>
        \A i \in GivenRows :
            (~ Blank(at_handler.df[i].New_Name) /\ GivenStaged(i))
                => (at_handler.df[i].New_Name \o LastDotExt(at_handler.df[i].Original_Name))
                       \in ArchiveNames

\* C2 amended: the archive entry is named new_name followed by the extension
\* of original_name, where a name whose last '.' follows nothing but dots has
\* an empty extension; the typed new_name contributes no extension of its own.
C2_OriginalExtension ==
    Processed =>
        \A i \in GivenRows :
            (~ Blank(at_handler.df[i].New_Name) /\ GivenStaged(i))
                => (at_handler.df[i].New_Name \o DotFileExt(at_handler.df[i].Original_Name))
                       \in ArchiveNames

\* a materialization that renamed a staged ".png" and a staged "a.pdf" whose
\* typed name carries an extension of its own
C2_Witness ==
    /\ Processed
    /\ \E i \in GivenRows :
        /\ at_handler.df[i].Original_Name = dot_png
        /\ ~ Blank(at_handler.df[i].New_Name)
        /\ GivenStaged(i)
    /\ \E i \in GivenRows :
        /\ at_handler.df[i].Original_Name = a_pdf
        /\ at_handler.df[i].New_Name = x_pdf
        /\ GivenStaged(i)

\* the name an entry is meant to get
MeantName(row) ==
    IF Blank(row.New_Name) THEN row.Original_Name
    ELSE row.New_Name \o DotFileExt(row.Original_Name)

\* C3: a session that uploads a batch, exports, imports the sheet back with
\* some names filled in and then materializes ends with an archive whose
\* entries are new_name + original extension for the filled rows and the
\* unchanged original name for the blank rows.
C3_EndToEnd ==
    scenario = "processed" =>
        ArchiveNames = {MeantName(at_handler.df[i]) : i \in GivenRows}

\* the table a reconcile is meant to build from the previous table and a batch
ReconciledAs(previous, batch, table) ==
    /\ Len(table) = Len(batch)
    /\ \A i \in 1..Len(batch) :
        /\ table[i].Original_Name = batch[i].name
        /\ \A j \in 1..Len(previous) :
            previous[j].Original_Name = batch[i].name =>
                \/ table[i].New_Name = previous[j].New_Name
                \/ Blank(table[i].New_Name) /\ Blank(previous[j].New_Name)
        /\ (\A j \in 1..Len(previous) : previous[j].Original_Name # batch[i].name)
                => Blank(table[i].New_Name)

\* C4: a run that meets a non-empty upload batch while the table holds at
\* least one non-blank new_name leaves its handlers a table with one entry per
\* name of the batch, in order, in which a name of the previous table keeps
\* its new_name and any other name has a blank one.
C4_ReconcilePreserves ==
    [][(/\ uploaded_files' # <<>>
        /\ \E j \in 1..Len(drawings_df) : ~ Blank(drawings_df[j].New_Name))
          => ReconciledAs(drawings_df, uploaded_files', at_handler'.df)]_vars

\* C5: a run that meets a non-empty upload batch while every new_name of the
\* table is blank (the empty table included) leaves its handlers a table whose
\* original names are the batch's names and whose new names are all blank.
C5_ReconcileAllBlank ==
    [][(/\ uploaded_files' # <<>>
        /\ \A j \in 1..Len(drawings_df) : Blank(drawings_df[j].New_Name))
          => /\ Len(at_handler'.df) = Len(uploaded_files')
             /\ \A i \in 1..Len(uploaded_files') :
                 /\ at_handler'.df[i].Original_Name = uploaded_files'[i].name
                 /\ Blank(at_handler'.df[i].New_Name)]_vars

\* C6: after a successful import the table has the entries it had, in the same
\* order; the new_name of an entry whose original_name is a title of the sheet
\* is the Renamed Title of the last row with that title (a missing value
\* included), and any other new_name is as it was.
C6_ImportOverwritesMatches ==
    ui = "import_success" =>
        /\ Len(drawings_df) = Len(at_handler.df)
        /\ \A i \in 1..Len(drawings_df) :
            LET rows == uploaded_excel.rows
                hits == {k \in 1..Len(rows) :
                            rows[k].Original_Title = at_handler.df[i].Original_Name}
            IN  /\ drawings_df[i].Original_Name = at_handler.df[i].Original_Name
                /\ hits = {} => drawings_df[i].New_Name = at_handler.df[i].New_Name
                /\ \A k \in hits :
                    (\A k2 \in hits : k2 <= k)
                        => drawings_df[i].New_Name = rows[k].Renamed_Title

\* an import of a sheet that repeats a title with two different values, names
\* a title with a missing value, and leaves an entry of the table unnamed
C6_Witness ==
    /\ ui = "import_success"
    /\ \E k1, k2 \in 1..Len(uploaded_excel.rows) :
        /\ k1 < k2
        /\ uploaded_excel.rows[k1].Original_Title = uploaded_excel.rows[k2].Original_Title
        /\ uploaded_excel.rows[k1].Renamed_Title # uploaded_excel.rows[k2].Renamed_Title
        /\ uploaded_excel.rows[k2].Renamed_Title = NaN
        /\ \E i \in 1..Len(at_handler.df) :
            /\ at_handler.df[i].Original_Name = uploaded_excel.rows[k1].Original_Title
            /\ ~ Blank(at_handler.df[i].New_Name)
    /\ \E i \in 1..Len(at_handler.df) :
        /\ \A k \in 1..Len(uploaded_excel.rows) :
            uploaded_excel.rows[k].Original_Title # at_handler.df[i].Original_Name
        /\ ~ Blank(at_handler.df[i].New_Name)

\* C7: an import of a sheet that cannot be read, or that lacks one of the two
\* columns, reports the error and leaves the table and the staged files as
\* the handler found them.
C7_FailedImportChangesNothing ==
    /\ (uploaded_excel.kind = "corrupt") => ui = "import_read_error"
    /\ (uploaded_excel.kind = "sheet" /\ ~ (BothColumns \subseteq uploaded_excel.columns))
           => ui = "import_columns_error"
    /\ ui \in {"import_read_error", "import_columns_error"} =>
           /\ drawings_df = at_handler.df
           /\ temp_uploaded_files = at_handler.staged

\* a failed import met by a table with a name filled in and files staged
C7_Witness ==
    /\ ui = "import_columns_error"
    /\ \E i \in 1..Len(drawings_df) : ~ Blank(drawings_df[i].New_Name)
    /\ temp_uploaded_files.exists
    /\ temp_uploaded_files.files # NoFiles

\* C8: an export of the empty table offers no sheet and reports that there is
\* nothing to export; an export of a table of N entries offers a sheet of N
\* rows whose Original Title column is the table's original names in order
\* and whose Renamed Title is blank in every row.
C8_ExportBlankSheet ==
    /\ ui = "export_nothing" => (at_handler.df = <<>> /\ ~ excel_file.made)
    /\ ui = "export_download" =>
           /\ at_handler.df # <<>>
           /\ excel_file.made
           /\ Len(excel_file.rows) = Len(at_handler.df)
           /\ \A i \in 1..Len(at_handler.df) :
               /\ excel_file.rows[i].Original_Title = at_handler.df[i].Original_Name
               /\ Blank(excel_file.rows[i].Renamed_Title)

\* an export of a table that holds a name the user filled in
C8_Witness ==
    /\ ui = "export_download"
    /\ Len(at_handler.df) = 2
    /\ \E i \in 1..Len(at_handler.df) : ~ Blank(at_handler.df[i].New_Name)

\* C9: a materialization skips the entries whose original is not staged, and
\* its archive holds exactly the output names of the entries whose original is
\* staged.
C9_ArchiveIsStagedOutputs ==
    Processed =>
        ArchiveNames = {output_name(at_handler.df[i]) : i \in {j \in GivenRows : GivenStaged(j)}}

\* C10: when a materialization completes, neither temp_uploaded_files nor
\* temp_renamed_files exists.
C10_DirectoriesRemoved ==
    Processed => (~ temp_uploaded_files.exists /\ ~ temp_renamed_files.exists)

\* a completed materialization that skipped an entry and copied another
C10_Witness ==
    /\ Processed
    /\ \E i \in GivenRows : ~ GivenStaged(i)
    /\ \E i \in GivenRows : GivenStaged(i)
    /\ at_handler.staged.exists

\* C11: a materialization asked for when no staging location exists reports
\* an error, offers no archive and leaves the table as it found it; an archive
\* is offered only when the staging location existed; and after the error the
\* upload widget, the rename options and, once the Excel option is selected,
\* export and import can still be used.
C11_NoStagingIsAnError ==
    /\ Processed => (at_handler.staged.exists /\ temp_dir_path # "")
    /\ ui = "process_error" =>
           /\ ~ (at_handler.staged.exists /\ temp_dir_path # "")
           /\ zip_file = NoArchive
           /\ drawings_df = at_handler.df
           /\ ENABLED (\E batch \in Batches : UploadDrawings(batch))
           /\ rename_option = TitleBlock => ENABLED SelectRenameOption(ExcelSheet)
           /\ rename_option = ExcelSheet =>
                  /\ ENABLED ExportToExcel
                  /\ ENABLED (\E sheet \in SessionSheets : ImportExcelFile(sheet))

\* the error met after an earlier materialization removed the staging
\* location, by a table that holds a name the user filled in
C11_Witness ==
    /\ ui = "process_error"
    /\ temp_dir_path # ""
    /\ ~ temp_uploaded_files.exists
    /\ \E i \in 1..Len(drawings_df) : ~ Blank(drawings_df[i].New_Name)

\* C12: when a run meets a changed, non-empty upload batch and is not stopped,
\* every original_name of the table it leaves is a key of the staging
\* directory, for a second or later batch as for the first.
C12_UploadsAreStaged ==
    [][(/\ uploaded_files' # uploaded_files
        /\ uploaded_files' # <<>>
        /\ ui' = "idle")
          => \A i \in 1..Len(drawings_df') :
                 drawings_df'[i].Original_Name \in DOMAIN temp_uploaded_files'.files]_vars

\* C13: when a session has materialized, then imported other names for the
\* same files, a second 'Process Rename' again offers an archive, whose
\* entries are named after the names the table holds then.
C13_SecondRunMaterializes ==
    scenario = "processed_again" =>
        /\ Processed
        /\ ArchiveNames = {MeantName(at_handler.df[i]) : i \in GivenRows}

\* C14 as stated: the upload block of a run leaves the staging directory as
\* it was, whatever the table.
C14_ReconcileLeavesStaging ==
    [][at_handler'.staged = temp_uploaded_files]_vars

\* the names of a batch
BatchNames(batch) == {batch[i].name : i \in 1..Len(batch)}

\* C14 amended: the upload block leaves the staging directory as it was when
\* no file is held by the widget or the table holds a New Name that is not
\* missing; otherwise (the table empty, or every New Name missing) it writes
\* the batch's files under their names, the last file of a name winning, and
\* keeps every other staged file as it was.
C14_ReconcileStagingFrame ==
    [][IF ui' = "upload_exception" \/ uploaded_files' = <<>>
          \/ \E j \in 1..Len(drawings_df) : drawings_df[j].New_Name # NaN
       THEN at_handler'.staged = temp_uploaded_files
       ELSE /\ at_handler'.staged.exists
            /\ DOMAIN at_handler'.staged.files
                   = (DOMAIN temp_uploaded_files.files) \cup BatchNames(uploaded_files')
            /\ \A n \in (DOMAIN temp_uploaded_files.files) \ BatchNames(uploaded_files') :
                   at_handler'.staged.files[n] = temp_uploaded_files.files[n]
            /\ \A i \in 1..Len(uploaded_files') :
                   (\A k \in (i + 1)..Len(uploaded_files') :
                        uploaded_files'[k].name # uploaded_files'[i].name)
                       => at_handler'.staged.files[uploaded_files'[i].name]
                              = uploaded_files'[i].data]_vars

\* both cases have happened: a batch written next to a file staged earlier,
\* then a batch met by an edited table, one of whose files is not staged
C14_Witness ==
    /\ ui = "idle"
    /\ at_handler.staged.exists
    /\ \E i \in 1..Len(drawings_df) : ~ Blank(drawings_df[i].New_Name)
    /\ \E i \in 1..Len(drawings_df) :
           drawings_df[i].Original_Name \notin DOMAIN at_handler.staged.files
    /\ \E n \in DOMAIN at_handler.staged.files :
           \A i \in 1..Len(drawings_df) : drawings_df[i].Original_Name # n

\* C15: no two entries of the table have the same original_name.
C15_OriginalNamesUnique ==
    \A i, j \in 1..Len(drawings_df) :
        drawings_df[i].Original_Name = drawings_df[j].Original_Name => i = j

\* the name an entry is copied to: new_name, or original_name when it is
\* blank, followed by the extension of original_name
CopiedAs(row) ==
    (IF Blank(row.New_Name) THEN row.Original_Name ELSE row.New_Name)
        \o DotFileExt(row.Original_Name)

\* C16: after a materialization, the archive entry under the output name of a
\* staged entry of the table holds the bytes of the last staged entry, in
\* table order, that resolves to that name.
C16_LaterEntryWins ==
    Processed =>
        \A i \in GivenRows :
            (/\ GivenStaged(i)
             /\ \A j \in GivenRows :
                    (j > i /\ GivenStaged(j))
                        => CopiedAs(at_handler.df[j]) # CopiedAs(at_handler.df[i]))
                => /\ CopiedAs(at_handler.df[i]) \in ArchiveNames
                   /\ zip_file.entries[CopiedAs(at_handler.df[i])]
                          = at_handler.staged.files[at_handler.df[i].Original_Name]

\* a materialization in which two staged files of different bytes resolved to
\* one output name
C16_Witness ==
    /\ Processed
    /\ \E i, j \in GivenRows :
        /\ i < j
        /\ GivenStaged(i)
        /\ GivenStaged(j)
        /\ CopiedAs(at_handler.df[i]) = CopiedAs(at_handler.df[j])
        /\ at_handler.staged.files[at_handler.df[i].Original_Name]
               # at_handler.staged.files[at_handler.df[j].Original_Name]

\* C17: when 'Process Rename' ends by an I/O error inside
\* process_and_zip_files, the output directory temp_renamed_files does not
\* exist afterwards.
C17_FailedRunCleansUp ==
    ui = "process_exception" => ~ temp_renamed_files.exists

====
